---------------------------- MODULE Spec2Model ----------------------------
(***************************************************************************)
(* A model of the c_array_support comparison and assignment layers         *)
(* (c_array_compare.hpp and c_array_assign.hpp).                           *)
(*                                                                         *)
(* A type is a record [elem, ext, cat]: the innermost element kind, the    *)
(* extents from the outermost dimension inwards (<<>> for a non-array) and *)
(* the reference category of the deduced template parameter:               *)
(*   "lv"  = T&        (a non-const lvalue operand)                        *)
(*   "clv" = T const&  (a const lvalue operand)                            *)
(*   "rv"  = T         (an rvalue operand, e.g. std::move(x))              *)
(* and, for a right operand only, "braced" = a brace-enclosed literal.     *)
(* A value of an array type is a nested tuple of element values.           *)
(***************************************************************************)
EXTENDS Integers, Sequences, FiniteSets, TLC

VARIABLES
  array_copy_semantics,  \* does the language copy and assign arrays (P1997)?
  L,     \* deduced type of the left operand
  R,     \* deduced type of the right operand
  l,     \* value of the left operand
  r,     \* value of the right operand
  past,  \* what a read past the end of r finds in memory
  ce,    \* is the call evaluated in a constant expression?
  pc,    \* "ready", "done" or "ill_formed" (rejected at compile time)
  op,    \* the operation called
  args,  \* the values passed to assign_elements, in order
  res,   \* the value the call returned
  log    \* the flat indices of l written by the call, in order

vars == <<array_copy_semantics, L, R, l, r, past, ce, pc, op, args, res, log>>

----------------------------------------------------------------------------
(* Bounds of the model *)

MaxVal == 1
MaxExtent == 3
MaxFlat == 4
MaxAddr == 8
ObjSize == 2

----------------------------------------------------------------------------
(* Element types.  "int": arithmetic, totally ordered.  "dbl": arithmetic  *)
(* with a NaN value, so that <=> has the category partial_ordering.        *)
(* "str": a class with copy and move assignment whose move-assignment      *)
(* leaves the source empty.  "mov": a class like "str" with its copy       *)
(* assignment deleted.  "ptr": a raw object pointer.                       *)

Kinds == {"int", "dbl", "str", "mov", "ptr"}

Cats == {"lv", "clv", "rv"}

Ty(e, x, c) == [elem |-> e, ext |-> x, cat |-> c]

NaN == MaxVal + 1

ElemVals(k) == IF k = "dbl" THEN 0..NaN ELSE 0..MaxVal

IsNaN(k, a) == k = "dbl" /\ a = NaN

Arithmetic(k) == k \in {"int", "dbl"}

ClassKind(k) == k \in {"str", "mov"}

----------------------------------------------------------------------------
(* Shape / flattening layer (c_array_support.hpp)                          *)

(* The shapes of the model: a non-array and the arrays of one and two      *)
(* dimensions.  Arrays with a zero extent are a compiler extension.        *)
Extents == 1..MaxExtent

Shapes == {<<>>} \cup {<<a>> : a \in Extents}
                 \cup {<<a, b>> : a \in Extents, b \in Extents}

ZeroShapes == {<<0>>} \cup {<<0, b>> : b \in Extents}
                      \cup {<<a, 0>> : a \in Extents}

RECURSIVE Product(_)
Product(x) == IF x = <<>> THEN 1 ELSE Head(x) * Product(Tail(x))

c_array(T) == Len(T.ext) > 0

flat_size(T) == Product(T.ext)

remove_cvref_t(T) == [T EXCEPT !.cat = "rv"]

all_extents_removed_t(T) == [T EXCEPT !.ext = <<>>]

extent_removed_t(T) == IF c_array(T) THEN [T EXCEPT !.ext = Tail(T.ext)] ELSE T

same_extents(A, B) == A.ext = B.ext

(* flat_index(a, i): the i-th innermost element of a in row-major order;   *)
(* x is the shape of a.  A non-array is its own only element.              *)
RECURSIVE flat_index_in(_, _, _)
flat_index_in(a, x, i) ==
  IF x = <<>> THEN a
  ELSE LET sub == Product(Tail(x))
       IN  flat_index_in(a[(i \div sub) + 1], Tail(x), i % sub)

(* An index at or beyond the total extent reads whatever follows the array *)
flat_index(a, x, i) ==
  IF i < Product(x) THEN flat_index_in(a, x, i) ELSE past

(* All values of shape x over the element values V *)
RECURSIVE ArraysOf(_, _)
ArraysOf(x, V) ==
  IF x = <<>> THEN V
  ELSE [1..Head(x) -> ArraysOf(Tail(x), V)]

(* a with its flat element i replaced by v (a store through flat_index);  *)
(* a store at or beyond the total extent lands outside a                   *)
RECURSIVE flat_store_in(_, _, _, _)
flat_store_in(a, x, i, v) ==
  IF x = <<>> THEN v
  ELSE LET sub == Product(Tail(x))
           k == (i \div sub) + 1
       IN  [a EXCEPT ![k] = flat_store_in(a[k], Tail(x), i % sub, v)]

flat_store(a, x, i, v) ==
  IF i < Product(x) THEN flat_store_in(a, x, i, v) ELSE a

----------------------------------------------------------------------------
(* The element operators the loops call: built-in or user-defined ==, !=,  *)
(* < and <=> of the innermost element type.                                *)

elem_eq(kl, a, kr, b) == ~IsNaN(kl, a) /\ ~IsNaN(kr, b) /\ a = b

elem_ne(kl, a, kr, b) == ~elem_eq(kl, a, kr, b)

elem_lt(kl, a, kr, b) == ~IsNaN(kl, a) /\ ~IsNaN(kr, b) /\ a < b

elem_3way(kl, a, kr, b) ==
  IF IsNaN(kl, a) \/ IsNaN(kr, b) THEN "unordered"
  ELSE IF a < b THEN "less"
  ELSE IF a > b THEN "greater"
  ELSE "equivalent"

(* std comparison concepts on a pair of innermost element types *)
std_equality_comparable_with(kl, kr) ==
  kl = kr \/ (Arithmetic(kl) /\ Arithmetic(kr))

std_totally_ordered_with(kl, kr) ==
  kl = kr \/ (Arithmetic(kl) /\ Arithmetic(kr))

std_three_way_comparable_with(kl, kr) ==
  kl = kr \/ (Arithmetic(kl) /\ Arithmetic(kr))

(* l == r (l < r) is well-formed and yields bool; conversion to            *)
(* void const volatile*; a user-declared operator== (operator<)            *)
compare_yields_bool(kl, kr) == kl = kr \/ (Arithmetic(kl) /\ Arithmetic(kr))

convertible_to_void_ptr(k) == k = "ptr"

user_operator(kl, kr) == ClassKind(kl) /\ kl = kr

----------------------------------------------------------------------------
(* Comparison concepts extended to arrays *)

three_way_comparable_with(A, B) ==
  /\ std_three_way_comparable_with(all_extents_removed_t(A).elem,
                                   all_extents_removed_t(B).elem)
  /\ same_extents(remove_cvref_t(A), remove_cvref_t(B))

equality_comparable_with(A, B) ==
  /\ std_equality_comparable_with(all_extents_removed_t(A).elem,
                                  all_extents_removed_t(B).elem)
  /\ same_extents(remove_cvref_t(A), remove_cvref_t(B))

totally_ordered_with(A, B) ==
  /\ std_totally_ordered_with(all_extents_removed_t(A).elem,
                              all_extents_removed_t(B).elem)
  /\ same_extents(remove_cvref_t(A), remove_cvref_t(B))

pointer_equality_comparable_with(P, Q) ==
  /\ ~c_array(P) /\ ~c_array(Q)
  /\ compare_yields_bool(P.elem, Q.elem)
  /\ convertible_to_void_ptr(P.elem)
  /\ convertible_to_void_ptr(Q.elem)
  /\ ~user_operator(P.elem, Q.elem)

pointer_less_than_comparable_with(P, Q) ==
  /\ ~c_array(P) /\ ~c_array(Q)
  /\ compare_yields_bool(P.elem, Q.elem)
  /\ convertible_to_void_ptr(P.elem)
  /\ convertible_to_void_ptr(Q.elem)
  /\ ~user_operator(P.elem, Q.elem)

----------------------------------------------------------------------------
(* compare_three_way *)

compare_three_way_requires(A, B) == three_way_comparable_with(A, B)

(* Mutant: an unordered element pair does not end the loop *)
RECURSIVE compare_three_way_loop_skips_unordered(_, _, _, _, _)
compare_three_way_loop_skips_unordered(A, B, a, b, i) ==
  IF i = flat_size(A) THEN "equivalent"
  ELSE LET c == elem_3way(A.elem, flat_index(a, A.ext, i),
                          B.elem, flat_index(b, B.ext, i))
       IN  IF c \in {"less", "greater"} THEN c
           ELSE compare_three_way_loop_skips_unordered(A, B, a, b, i + 1)

RECURSIVE compare_three_way_loop(_, _, _, _, _)
compare_three_way_loop(A, B, a, b, i) ==
  IF i = flat_size(A) THEN "equivalent"
  ELSE LET c == elem_3way(A.elem, flat_index(a, A.ext, i),
                          B.elem, flat_index(b, B.ext, i))
       IN  IF c # "equivalent" THEN c
           ELSE compare_three_way_loop(A, B, a, b, i + 1)

compare_three_way(A, B, a, b) ==
  IF ~c_array(A) /\ ~c_array(B)
       /\ std_three_way_comparable_with(A.elem, B.elem)
  THEN elem_3way(A.elem, a, B.elem, b)
  ELSE compare_three_way_loop(A, B, a, b, 0)

----------------------------------------------------------------------------
(* equal_to, not_equal_to *)

equal_to_requires(A, B) ==
  \/ equality_comparable_with(A, B)
  \/ pointer_equality_comparable_with(all_extents_removed_t(A),
                                      all_extents_removed_t(B))

(* Mutant: the loop is bounded by the outermost extent, not the flat size *)
RECURSIVE equal_to_loop_outer_extent(_, _, _, _, _)
equal_to_loop_outer_extent(A, B, a, b, i) ==
  IF i = Head(A.ext) THEN TRUE
  ELSE IF elem_ne(A.elem, flat_index(a, A.ext, i),
                  B.elem, flat_index(b, B.ext, i))
  THEN FALSE
  ELSE equal_to_loop_outer_extent(A, B, a, b, i + 1)

RECURSIVE equal_to_loop(_, _, _, _, _)
equal_to_loop(A, B, a, b, i) ==
  IF i = flat_size(A) THEN TRUE
  ELSE IF elem_ne(A.elem, flat_index(a, A.ext, i),
                  B.elem, flat_index(b, B.ext, i))
  THEN FALSE
  ELSE equal_to_loop(A, B, a, b, i + 1)

equal_to(A, B, a, b) ==
  IF ~c_array(A) THEN elem_eq(A.elem, a, B.elem, b)
  ELSE equal_to_loop(A, B, a, b, 0)

not_equal_to_requires(A, B) ==
  \/ equality_comparable_with(A, B)
  \/ pointer_equality_comparable_with(all_extents_removed_t(A),
                                      all_extents_removed_t(B))

not_equal_to(A, B, a, b) == ~equal_to(A, B, a, b)

----------------------------------------------------------------------------
(* less *)

less_requires(A, B) ==
  \/ totally_ordered_with(A, B)
  \/ pointer_less_than_comparable_with(all_extents_removed_t(A),
                                       all_extents_removed_t(B))

(* Mutant: any position with a smaller left element decides *)
RECURSIVE less_loop_any_smaller(_, _, _, _, _)
less_loop_any_smaller(A, B, a, b, i) ==
  IF i = flat_size(A) THEN FALSE
  ELSE IF elem_lt(A.elem, flat_index(a, A.ext, i),
                  B.elem, flat_index(b, B.ext, i))
  THEN TRUE
  ELSE less_loop_any_smaller(A, B, a, b, i + 1)

(* Mutant: the loop decides by < and >, as lexicographical_compare does    *)
RECURSIVE less_loop_by_less_only(_, _, _, _, _)
less_loop_by_less_only(A, B, a, b, i) ==
  IF i = flat_size(A) THEN FALSE
  ELSE IF elem_lt(A.elem, flat_index(a, A.ext, i),
                  B.elem, flat_index(b, B.ext, i))
  THEN TRUE
  ELSE IF elem_lt(B.elem, flat_index(b, B.ext, i),
                  A.elem, flat_index(a, A.ext, i))
  THEN FALSE
  ELSE less_loop_by_less_only(A, B, a, b, i + 1)

(* Mutant: arrays with no differing position compare less *)
RECURSIVE less_loop_or_equal(_, _, _, _, _)
less_loop_or_equal(A, B, a, b, i) ==
  IF i = flat_size(A) THEN TRUE
  ELSE IF elem_ne(A.elem, flat_index(a, A.ext, i),
                  B.elem, flat_index(b, B.ext, i))
  THEN elem_lt(A.elem, flat_index(a, A.ext, i),
               B.elem, flat_index(b, B.ext, i))
  ELSE less_loop_or_equal(A, B, a, b, i + 1)

RECURSIVE less_loop(_, _, _, _, _)
less_loop(A, B, a, b, i) ==
  IF i = flat_size(A) THEN FALSE
  ELSE IF elem_ne(A.elem, flat_index(a, A.ext, i),
                  B.elem, flat_index(b, B.ext, i))
  THEN elem_lt(A.elem, flat_index(a, A.ext, i),
               B.elem, flat_index(b, B.ext, i))
  ELSE less_loop(A, B, a, b, i + 1)

(* Mutant: the address is converted to a narrower integer *)
to_uintptr_narrow(p) == p % 4

(* reinterpret_cast<UINTPTR>: the address as an unsigned integer *)
to_uintptr(p) == p

(* the built-in < of two pointers into the same object *)
builtin_pointer_less(p, q) == p < q

less(A, B, a, b) ==
  IF pointer_less_than_comparable_with(A, B)
  THEN IF ce THEN builtin_pointer_less(a, b)
       ELSE to_uintptr(a) < to_uintptr(b)
  ELSE IF ~c_array(A) THEN elem_lt(A.elem, a, B.elem, b)
  ELSE less_loop(A, B, a, b, 0)

----------------------------------------------------------------------------
(* Assignment traits of the innermost element types (std traits).  A is    *)
(* the type assigned to, B the type assigned from.                         *)

elem_compatible(A, B) ==
  A.elem = B.elem \/ (Arithmetic(A.elem) /\ Arithmetic(B.elem))

elem_source_ok(A, B) == A.elem = "mov" => B.cat = "rv"

(* The built-in assignment takes an array operand only when the language   *)
(* has array copy semantics, and then both operands are arrays of one type *)
array_assignable(A, B) ==
  /\ array_copy_semantics
  /\ c_array(A) /\ c_array(B)
  /\ A.elem = B.elem /\ A.ext = B.ext

std_assignable_from(A, B) ==
  /\ (c_array(A) \/ c_array(B)) => array_assignable(A, B)
  /\ A.cat = "lv"
  /\ elem_compatible(A, B)
  /\ elem_source_ok(A, B)

std_is_assignable_v(A, B) ==
  /\ (c_array(A) \/ c_array(B)) => array_assignable(A, B)
  /\ A.cat = "lv" \/ (A.cat = "rv" /\ ClassKind(A.elem))
  /\ elem_compatible(A, B)
  /\ elem_source_ok(A, B)

std_is_trivially_assignable_v(A, B) ==
  std_is_assignable_v(A, B) /\ ~ClassKind(A.elem)

std_is_nothrow_assignable_v(A, B) ==
  std_is_assignable_v(A, B) /\ (ClassKind(A.elem) => B.cat = "rv")

(* std::copyable<T>: an object type (no reference) that can be copied; an  *)
(* array is copyable when the language has array copy semantics            *)
std_copyable(A) ==
  /\ A.cat = "rv"
  /\ IF c_array(A) THEN array_copy_semantics ELSE A.elem # "mov"

(* Detection of native array copy semantics: std::copyable<int[1]> *)
is_copyable_array == std_copyable(Ty("int", <<1>>, "rv"))

----------------------------------------------------------------------------
(* Array-enabled assignment traits *)

(* Mutant: the shapes of the two types are not compared *)
assignable_from_without_shape(A, B) ==
  IF is_copyable_array \/ ~c_array(A)
  THEN std_assignable_from(A, B)
  ELSE std_assignable_from(all_extents_removed_t(A),
                           all_extents_removed_t(B))

assignable_from(A, B) ==
  IF is_copyable_array \/ ~c_array(A)
  THEN std_assignable_from(A, B)
  ELSE /\ std_assignable_from(all_extents_removed_t(A),
                              all_extents_removed_t(B))
       /\ same_extents(remove_cvref_t(A), remove_cvref_t(B))

(* Mutant: the shapes of the two types are compared as well *)
is_assignable_v_same_shape(A, B) ==
  IF is_copyable_array \/ ~c_array(A)
  THEN std_is_assignable_v(A, B)
  ELSE /\ std_is_assignable_v(all_extents_removed_t(A),
                              all_extents_removed_t(B))
       /\ same_extents(remove_cvref_t(A), remove_cvref_t(B))

is_assignable_v(A, B) ==
  IF is_copyable_array \/ ~c_array(A)
  THEN std_is_assignable_v(A, B)
  ELSE std_is_assignable_v(all_extents_removed_t(A),
                           all_extents_removed_t(B))

is_trivially_assignable_v(A, B) ==
  IF is_copyable_array \/ ~c_array(A)
  THEN std_is_trivially_assignable_v(A, B)
  ELSE std_is_trivially_assignable_v(all_extents_removed_t(A),
                                     all_extents_removed_t(B))

is_nothrow_assignable_v(A, B) ==
  IF is_copyable_array \/ ~c_array(A)
  THEN std_is_nothrow_assignable_v(A, B)
  ELSE std_is_nothrow_assignable_v(all_extents_removed_t(A),
                                   all_extents_removed_t(B))

----------------------------------------------------------------------------
(* Unary assignment traits.  std::is_copy_assignable_v<T> is               *)
(* is_assignable_v<T&, T const&> and std::is_move_assignable_v<T> is       *)
(* is_assignable_v<T&, T&&>; a reference T collapses.                      *)

add_lvalue_reference(T) ==
  [T EXCEPT !.cat = IF T.cat = "rv" THEN "lv" ELSE T.cat]

add_const_lvalue_reference(T) ==
  [T EXCEPT !.cat = IF T.cat = "rv" THEN "clv" ELSE T.cat]

add_rvalue_reference(T) == T

std_is_copy_assignable_v(T) ==
  std_is_assignable_v(add_lvalue_reference(T), add_const_lvalue_reference(T))

std_is_move_assignable_v(T) ==
  std_is_assignable_v(add_lvalue_reference(T), add_rvalue_reference(T))

std_is_trivially_copy_assignable_v(T) ==
  std_is_trivially_assignable_v(add_lvalue_reference(T),
                                add_const_lvalue_reference(T))

std_is_trivially_move_assignable_v(T) ==
  std_is_trivially_assignable_v(add_lvalue_reference(T),
                                add_rvalue_reference(T))

std_is_nothrow_copy_assignable_v(T) ==
  std_is_nothrow_assignable_v(add_lvalue_reference(T),
                              add_const_lvalue_reference(T))

std_is_nothrow_move_assignable_v(T) ==
  std_is_nothrow_assignable_v(add_lvalue_reference(T),
                              add_rvalue_reference(T))

(* Mutant: the std trait is applied to the array type itself *)
is_copy_assignable_v_of_array(T) == std_is_copy_assignable_v(T)

is_copy_assignable_v(T) ==
  IF is_copyable_array THEN std_is_copy_assignable_v(T)
  ELSE std_is_copy_assignable_v(all_extents_removed_t(T))

is_move_assignable_v(T) ==
  IF is_copyable_array THEN std_is_move_assignable_v(T)
  ELSE std_is_move_assignable_v(all_extents_removed_t(T))

is_trivially_copy_assignable_v(T) ==
  IF is_copyable_array THEN std_is_trivially_copy_assignable_v(T)
  ELSE std_is_trivially_copy_assignable_v(all_extents_removed_t(T))

is_trivially_move_assignable_v(T) ==
  IF is_copyable_array THEN std_is_trivially_move_assignable_v(T)
  ELSE std_is_trivially_move_assignable_v(all_extents_removed_t(T))

is_nothrow_copy_assignable_v(T) ==
  IF is_copyable_array THEN std_is_nothrow_copy_assignable_v(T)
  ELSE std_is_nothrow_copy_assignable_v(all_extents_removed_t(T))

is_nothrow_move_assignable_v(T) ==
  IF is_copyable_array THEN std_is_nothrow_move_assignable_v(T)
  ELSE std_is_nothrow_move_assignable_v(all_extents_removed_t(T))

----------------------------------------------------------------------------
(* assign_to<L> and assign(l) *)

(* L&& of a deduced L: a reference type, "xv" = T&& for an rvalue operand   *)
forwarding_reference(A) ==
  [A EXCEPT !.cat = IF A.cat = "rv" THEN "xv" ELSE A.cat]

(* assign_toable<L&&>: assign_to<A> is specialised for an array type that  *)
(* is not copyable                                                         *)
assign_toable(A) == c_array(A) /\ ~std_copyable(forwarding_reference(A))

(* the member  L& l  of assign_to<L>: an lvalue of L's value type *)
assign_to_member(A) == [A EXCEPT !.cat = IF A.cat = "clv" THEN "clv" ELSE "lv"]

(* template <c_array R> requires assignable_from<L, R&&> operator=(R&&) *)
assign_to_template_viable(A, B) ==
  B.cat # "braced" /\ c_array(B) /\ assignable_from(A, B)

(* operator=(value_type const&): binds an array of exactly L's value type; *)
(* its body assigns each element of l from a const element                 *)
assign_to_value_type_viable(A, B) == A.elem = B.elem /\ A.ext = B.ext

assign_to_value_type_body(A) ==
  std_is_assignable_v(all_extents_removed_t(assign_to_member(A)),
                      [all_extents_removed_t(A) EXCEPT !.cat = "clv"])

(* the overload of operator= that assign(l) = r selects:                   *)
(* "template", "value_type", or "none" when no overload is viable          *)
assign_to_overload(A, B) ==
  IF assign_to_template_viable(A, B)
       /\ ~(assign_to_value_type_viable(A, B) /\ B.cat = "clv")
  THEN "template"
  ELSE IF assign_to_value_type_viable(A, B) THEN "value_type"
  ELSE "none"

(* Is  assign(l) = r  well-formed? *)
assign_well_formed(A, B) ==
  IF assign_toable(A)
  THEN \/ assign_to_overload(A, B) = "template"
       \/ assign_to_overload(A, B) = "value_type"
            /\ assign_to_value_type_body(A)
  ELSE std_is_assignable_v(A, B)

(* Are the elements of r moved from?  flat_index((R&&)r, i) is an rvalue   *)
(* when R is deduced from an rvalue.                                       *)
(* Mutant: the elements of every source are moved from *)
assign_moves_always(A, B) == TRUE

assign_moves(A, B) ==
  B.cat = "rv" /\ (assign_toable(A) => assign_to_overload(A, B) = "template")

(* What an element of kind k holds after it was the source of a move: a    *)
(* class element is left empty (0), a scalar keeps its value               *)
moved_from(k, v) == IF ClassKind(k) THEN 0 ELSE v

(* Mutant: the loop is bounded by the outermost extent, not the flat size *)
RECURSIVE assign_to_loop_outer_extent(_, _, _, _, _, _, _)
assign_to_loop_outer_extent(A, B, a, b, w, i, mv) ==
  IF i = Head(A.ext) THEN [l |-> a, r |-> b, log |-> w]
  ELSE LET v == flat_index(b, B.ext, i)
       IN  assign_to_loop_outer_extent(A, B,
             flat_store(a, A.ext, i, v),
             IF mv THEN flat_store(b, B.ext, i, moved_from(B.elem, v)) ELSE b,
             Append(w, i), i + 1, mv)

(* The elementwise loop of operator=: a record of the two values and of    *)
(* the flat indices written, after the iterations from i on.               *)
RECURSIVE assign_to_loop(_, _, _, _, _, _, _)
assign_to_loop(A, B, a, b, w, i, mv) ==
  IF i = flat_size(A) THEN [l |-> a, r |-> b, log |-> w]
  ELSE LET v == flat_index(b, B.ext, i)
       IN  assign_to_loop(A, B,
             flat_store(a, A.ext, i, v),
             IF mv THEN flat_store(b, B.ext, i, moved_from(B.elem, v)) ELSE b,
             Append(w, i), i + 1, mv)

(* assign(l) = r  on well-formed operands *)
assign(A, B, a, b) ==
  IF assign_toable(A)
  THEN assign_to_loop(A, B, a, b, <<>>, 0, assign_moves(A, B))
  ELSE [l |-> b,
        r |-> IF assign_moves(A, B) THEN moved_from(B.elem, b) ELSE b,
        log |-> <<0>>]

(* the object the assignment expression refers to:  return l;  *)
assign_result == "l"

----------------------------------------------------------------------------
(* assign_elements(t, v...).  Every value has the type B and n values are  *)
(* passed.                                                                 *)

assign_elements_requires(A, B, n) ==
  c_array(A) /\ (n > 0 => assignable_from(extent_removed_t(A), B))

(* Mutant: fewer values than elements are accepted *)
assign_elements_static_assert_at_most(A, n) == n <= Head(A.ext)

(* static_assert(sizeof...(T) == std::extent_v<std::remove_cvref_t<L>>) *)
assign_elements_static_assert(A, n) == n = Head(A.ext)

(* The fold of  assign(element k of t) = v  from the k-th value on; vs are  *)
(* values and w the flat indices of a written so far.                      *)
RECURSIVE assign_elements_fold(_, _, _, _, _, _)
assign_elements_fold(A, B, a, vs, w, k) ==
  IF k = Len(vs) THEN [l |-> a, vs |-> vs, log |-> w]
  ELSE LET E == extent_removed_t(A)
           one == assign(E, B, a[k + 1], vs[k + 1])
           at == [j \in 1..Len(one.log) |-> k * flat_size(E) + one.log[j]]
       IN  assign_elements_fold(A, B,
             [a EXCEPT ![k + 1] = one.l],
             [vs EXCEPT ![k + 1] = one.r],
             w \o at, k + 1)

----------------------------------------------------------------------------
(* Operands.  Two operands of the same shape take every value of that      *)
(* shape when its total extent is at most MaxFlat; any other pair of       *)
(* operands is value-initialised (T a{}).  A braced literal stands where   *)
(* an array of the left operand's type is expected.                        *)

RtShapes == {x \in Shapes \cup ZeroShapes : Product(x) <= MaxFlat}

Fill(x, v) == CHOOSE a \in ArraysOf(x, {v}) : TRUE

Zero(x) == Fill(x, 0)

SamePairs(K) == {<<k, k>> : k \in K}

ArithmeticPairs == {<<"int", "int">>, <<"dbl", "dbl">>,
                    <<"int", "dbl">>, <<"dbl", "int">>}

Typed(kp, xl, xr, cl, cr) ==
  /\ L = Ty(kp[1], xl, cl)
  /\ R = Ty(kp[2], xr, cr)
  /\ cr = "braced" => (xl = xr /\ xl # <<>> /\ kp[1] = kp[2])

Fresh ==
  /\ pc = "ready"
  /\ op = "none"
  /\ args = <<>>
  /\ res = "none"
  /\ log = <<>>

Past(kp, xl, xr) ==
  past \in (IF Product(xr) < Product(xl) THEN ElemVals(kp[2]) ELSE {0})

(* operands of the comparison functors *)
InitCompare ==
  \E kp \in ArithmeticPairs,
     xl \in Shapes \cup ZeroShapes, xr \in Shapes \cup ZeroShapes :
    /\ Typed(kp, xl, xr, "lv", "lv")
    /\ \/ /\ xl = xr /\ xl \in RtShapes
          /\ l \in ArraysOf(xl, ElemVals(kp[1]))
          /\ r \in ArraysOf(xr, ElemVals(kp[2]))
       \/ /\ ~(xl = xr /\ xl \in RtShapes)
          /\ l = Zero(xl)
          /\ r = Zero(xr)
    /\ Past(kp, xl, xr)
    /\ ce = FALSE
    /\ Fresh
    /\ array_copy_semantics = FALSE

(* operands of an assignment: l holds all 0 or all MaxVal, so that every   *)
(* element of l differs from the value assigned to it in some state        *)
InitAssign ==
  \E kp \in SamePairs({"int", "dbl", "str", "mov"}),
     xl \in Shapes, xr \in Shapes,
     cl \in {"lv", "clv"}, cr \in {"lv", "clv", "rv", "braced"} :
    /\ Typed(kp, xl, xr, cl, cr)
    /\ \/ /\ xl \in RtShapes /\ xr \in RtShapes
          /\ l \in {Fill(xl, 0), Fill(xl, MaxVal)}
          /\ r \in ArraysOf(xr, ElemVals(kp[2]))
       \/ /\ ~(xl \in RtShapes /\ xr \in RtShapes)
          /\ l = Zero(xl)
          /\ r = Zero(xr)
    /\ Past(kp, xl, xr)
    /\ ce = FALSE
    /\ Fresh
    /\ array_copy_semantics = FALSE

(* value-initialised operands of every pair of types *)
TypePairs == SamePairs(Kinds) \cup ArithmeticPairs
               \cup {<<"int", "ptr">>, <<"ptr", "int">>}

InitTypes ==
  \E kp \in TypePairs, xl \in Shapes, xr \in Shapes,
     cl \in Cats, cr \in Cats :
    /\ Typed(kp, xl, xr, cl, cr)
    /\ l = Zero(xl)
    /\ r = Zero(xr)
    /\ Past(kp, xl, xr)
    /\ ce = FALSE
    /\ Fresh
    /\ array_copy_semantics = FALSE

(* operands in a build with and in a build without array copy semantics:  *)
(* l value-initialised, every element of r holding MaxVal                  *)
InitNative ==
  \E kp \in SamePairs({"int", "str", "mov"}) \cup {<<"int", "dbl">>},
     xl \in Shapes, xr \in Shapes,
     cl \in Cats, cr \in Cats \cup {"braced"} :
    /\ Typed(kp, xl, xr, cl, cr)
    /\ l = Zero(xl)
    /\ r = Fill(xr, MaxVal)
    /\ Past(kp, xl, xr)
    /\ ce = FALSE
    /\ Fresh
    /\ array_copy_semantics \in BOOLEAN

(* two pointers to objects: addresses 1..MaxAddr, object of address p is   *)
(* p \div ObjSize; the call is evaluated at run time or at compile time    *)
Addresses == 1..MaxAddr

Related(p, q) == (p \div ObjSize) = (q \div ObjSize)

InitPointer ==
  /\ Typed(<<"ptr", "ptr">>, <<>>, <<>>, "lv", "lv")
  /\ l \in Addresses
  /\ r \in Addresses
  /\ past = 0
  /\ ce \in BOOLEAN
  /\ Fresh
  /\ array_copy_semantics = FALSE

(* Does the body of equal_to / less instantiate?  The array branch indexes *)
(* both operands, and flat_index takes an index only for an array; the     *)
(* non-array branch compares the operands with the built-in or the         *)
(* element's operator, which takes no array operand.                       *)
body_well_formed(A, B) == c_array(A) = c_array(B)

----------------------------------------------------------------------------
(* The indices that a comparison loop passes to flat_index, in order: the  *)
(* loop of equal_to and of less stops after the first pair that is !=, the *)
(* loop of compare_three_way after the first pair that is not equivalent.  *)

RECURSIVE equal_to_loop_indices(_, _, _, _, _, _)
equal_to_loop_indices(A, B, a, b, w, i) ==
  IF i = flat_size(A) THEN w
  ELSE IF elem_ne(A.elem, flat_index(a, A.ext, i),
                  B.elem, flat_index(b, B.ext, i))
  THEN Append(w, i)
  ELSE equal_to_loop_indices(A, B, a, b, Append(w, i), i + 1)

less_loop_indices(A, B, a, b, w, i) ==
  equal_to_loop_indices(A, B, a, b, w, i)

RECURSIVE compare_three_way_loop_indices(_, _, _, _, _, _)
compare_three_way_loop_indices(A, B, a, b, w, i) ==
  IF i = flat_size(A) THEN w
  ELSE IF elem_3way(A.elem, flat_index(a, A.ext, i),
                    B.elem, flat_index(b, B.ext, i)) # "equivalent"
  THEN Append(w, i)
  ELSE compare_three_way_loop_indices(A, B, a, b, Append(w, i), i + 1)

----------------------------------------------------------------------------
(* Calls of the comparison functors *)

Call_compare_three_way ==
  /\ pc = "ready"
  /\ op' = "compare_three_way"
  /\ IF compare_three_way_requires(L, R)
     THEN /\ pc' = "done"
          /\ res' = compare_three_way(L, R, l, r)
          /\ log' = IF c_array(L) \/ c_array(R)
                    THEN compare_three_way_loop_indices(L, R, l, r, <<>>, 0)
                    ELSE <<>>
     ELSE pc' = "ill_formed" /\ res' = "none" /\ log' = log
  /\ UNCHANGED <<array_copy_semantics, L, R, l, r, past, ce, args>>

Call_equal_to ==
  /\ pc = "ready"
  /\ op' = "equal_to"
  /\ IF equal_to_requires(L, R) /\ body_well_formed(L, R)
     THEN /\ pc' = "done"
          /\ res' = equal_to(L, R, l, r)
          /\ log' = IF c_array(L)
                    THEN equal_to_loop_indices(L, R, l, r, <<>>, 0)
                    ELSE <<>>
     ELSE pc' = "ill_formed" /\ res' = "none" /\ log' = log
  /\ UNCHANGED <<array_copy_semantics, L, R, l, r, past, ce, args>>

Call_not_equal_to ==
  /\ pc = "ready"
  /\ op' = "not_equal_to"
  /\ IF not_equal_to_requires(L, R) /\ body_well_formed(L, R)
     THEN /\ pc' = "done"
          /\ res' = not_equal_to(L, R, l, r)
          /\ log' = IF c_array(L)
                    THEN equal_to_loop_indices(L, R, l, r, <<>>, 0)
                    ELSE <<>>
     ELSE pc' = "ill_formed" /\ res' = "none" /\ log' = log
  /\ UNCHANGED <<array_copy_semantics, L, R, l, r, past, ce, args>>

(* In a constant expression the built-in < of two pointers that do not     *)
(* point into the same object is not a constant expression.                *)
less_constant_ok(A, B, a, b) ==
  (ce /\ pointer_less_than_comparable_with(A, B)) => Related(a, b)

Call_less ==
  /\ pc = "ready"
  /\ op' = "less"
  /\ IF less_requires(L, R) /\ body_well_formed(L, R)
          /\ less_constant_ok(L, R, l, r)
     THEN /\ pc' = "done"
          /\ res' = less(L, R, l, r)
          /\ log' = IF c_array(L)
                    THEN less_loop_indices(L, R, l, r, <<>>, 0)
                    ELSE <<>>
     ELSE pc' = "ill_formed" /\ res' = "none" /\ log' = log
  /\ UNCHANGED <<array_copy_semantics, L, R, l, r, past, ce, args>>

----------------------------------------------------------------------------
(* assign(l) = r *)

Call_assign ==
  /\ pc = "ready"
  /\ op' = "assign"
  /\ IF assign_well_formed(L, R)
     THEN LET o == assign(L, R, l, r)
          IN  /\ pc' = "done"
              /\ l' = o.l
              /\ r' = o.r
              /\ log' = o.log
              /\ res' = assign_result
     ELSE /\ pc' = "ill_formed"
          /\ res' = "none"
          /\ UNCHANGED <<l, r, log>>
  /\ UNCHANGED <<array_copy_semantics, L, R, past, ce, args>>

(* assign_elements(l, r[0], ..., r[n-1]), or assign_elements(l, r) and     *)
(* assign_elements(l) for a non-array r                                    *)
ArgType(B) == IF c_array(B) THEN extent_removed_t(B) ELSE B

MaxArgs(B) == IF c_array(B) THEN Head(B.ext) ELSE 1

ArgValues(B, b, n) == [k \in 1..n |-> IF c_array(B) THEN b[k] ELSE b]

AfterArgs(B, b, vs) ==
  IF c_array(B)
  THEN [k \in 1..Head(B.ext) |-> IF k <= Len(vs) THEN vs[k] ELSE b[k]]
  ELSE IF Len(vs) = 1 THEN vs[1] ELSE b

Call_assign_elements ==
  /\ pc = "ready"
  /\ R.cat # "braced"
  /\ op' = "assign_elements"
  /\ \E n \in 0..MaxArgs(R) :
       /\ args' = ArgValues(R, r, n)
       /\ IF assign_elements_requires(L, ArgType(R), n)
               /\ assign_elements_static_assert(L, n)
          THEN LET o == assign_elements_fold(L, ArgType(R), l,
                                             ArgValues(R, r, n), <<>>, 0)
               IN  /\ pc' = "done"
                   /\ l' = o.l
                   /\ r' = AfterArgs(R, r, o.vs)
                   /\ log' = o.log
                   /\ res' = "l"
          ELSE /\ pc' = "ill_formed"
               /\ res' = "none"
               /\ UNCHANGED <<l, r, log>>
  /\ UNCHANGED <<array_copy_semantics, L, R, past, ce>>

(* The binary assignability traits of the pair L, R *)
Query_traits ==
  /\ pc = "ready"
  /\ op' = "traits"
  /\ pc' = "done"
  /\ res' = [assignable_from |-> assignable_from(L, R),
             is_assignable_v |-> is_assignable_v(L, R),
             is_trivially_assignable_v |-> is_trivially_assignable_v(L, R),
             is_nothrow_assignable_v |-> is_nothrow_assignable_v(L, R)]
  /\ UNCHANGED <<array_copy_semantics, L, R, l, r, past, ce, args, log>>

(* The unary assignability traits of the type of L *)
Query_unary_traits ==
  /\ pc = "ready"
  /\ op' = "unary_traits"
  /\ pc' = "done"
  /\ res' = [is_copy_assignable_v |-> is_copy_assignable_v(L),
             is_move_assignable_v |-> is_move_assignable_v(L),
             is_trivially_copy_assignable_v |->
               is_trivially_copy_assignable_v(L),
             is_trivially_move_assignable_v |->
               is_trivially_move_assignable_v(L),
             is_nothrow_copy_assignable_v |-> is_nothrow_copy_assignable_v(L),
             is_nothrow_move_assignable_v |-> is_nothrow_move_assignable_v(L)]
  /\ UNCHANGED <<array_copy_semantics, L, R, l, r, past, ce, args, log>>

----------------------------------------------------------------------------
(* Specifications *)

NextCompare ==
  \/ Call_compare_three_way
  \/ Call_equal_to
  \/ Call_not_equal_to
  \/ Call_less

SpecCompare == InitCompare /\ [][NextCompare]_vars

NextAssign ==
  \/ Call_assign
  \/ Call_assign_elements

SpecAssign == InitAssign /\ [][NextAssign]_vars

NextTypes ==
  \/ Call_compare_three_way
  \/ Call_equal_to
  \/ Call_not_equal_to
  \/ Call_less
  \/ Call_assign
  \/ Query_traits

SpecTypes == InitTypes /\ [][NextTypes]_vars

NextPointer ==
  \/ Call_equal_to
  \/ Call_not_equal_to
  \/ Call_less

SpecPointer == InitPointer /\ [][NextPointer]_vars

NextNative ==
  \/ Call_assign
  \/ Query_traits
  \/ Query_unary_traits

SpecNative == InitNative /\ [][NextNative]_vars

Init == InitCompare \/ InitAssign \/ InitTypes \/ InitPointer \/ InitNative

Next ==
  \/ Call_compare_three_way
  \/ Call_equal_to
  \/ Call_not_equal_to
  \/ Call_less
  \/ Call_assign
  \/ Call_assign_elements
  \/ Query_traits
  \/ Query_unary_traits

Spec == Init /\ [][Next]_vars

----------------------------------------------------------------------------
(* The element sequence of a value in row-major order, built by            *)
(* concatenating the rows: the reference the claims are stated against.    *)

RECURSIVE Flatten(_, _)
RECURSIVE FlattenRows(_, _, _)
Flatten(a, x) == IF x = <<>> THEN <<a>> ELSE FlattenRows(a, x, 1)
FlattenRows(a, x, k) ==
  IF k > Head(x) THEN <<>>
  ELSE Flatten(a[k], Tail(x)) \o FlattenRows(a, x, k + 1)

FlatL == Flatten(l, L.ext)
FlatR == Flatten(r, R.ext)

Idx == 1..Len(FlatL)

EqAt(k) == elem_eq(L.elem, FlatL[k], R.elem, FlatR[k])
LtAt(k) == elem_lt(L.elem, FlatL[k], R.elem, FlatR[k])
CmpAt(k) == elem_3way(L.elem, FlatL[k], R.elem, FlatR[k])

(* k is the first position whose elements differ *)
FirstDiff(k) == ~EqAt(k) /\ \A j \in 1..(k - 1) : EqAt(j)

(* k is the first position whose elements are not equivalent under <=> *)
FirstNonEquiv(k) ==
  CmpAt(k) # "equivalent" /\ \A j \in 1..(k - 1) : CmpAt(j) = "equivalent"

SameShapeArrays == c_array(L) /\ c_array(R) /\ same_extents(L, R)

Done(f) == pc = "done" /\ op = f

----------------------------------------------------------------------------
(* C1: on two arrays of the same shape equal_to returns true iff the       *)
(* elements at every flat index are equal; a zero-extent array compares    *)
(* equal.                                                                  *)
C1_EqualToAllEqual ==
  (Done("equal_to") /\ SameShapeArrays)
    => (res = (\A k \in Idx : EqAt(k)))

(* C1 witness: a 2x2 comparison that is false only for its last element    *)
C1_Witness ==
  /\ Done("equal_to") /\ SameShapeArrays
  /\ L.ext = <<2, 2>>
  /\ res = FALSE
  /\ FirstDiff(4)

(* C2: on two arrays of the same shape less returns true iff there is a    *)
(* first flat index at which the elements differ and the left element is   *)
(* smaller there; with no differing position it returns false.             *)
C2_LessFirstDiff ==
  (Done("less") /\ SameShapeArrays)
    => (res = (\E k \in Idx : FirstDiff(k) /\ LtAt(k)))

(* C2 witness: a smaller element after the first difference does not      *)
(* make the left array less                                                *)
C2_Witness ==
  /\ Done("less") /\ SameShapeArrays
  /\ res = FALSE
  /\ \E k \in Idx : FirstDiff(k) /\ \E j \in Idx : j > k /\ LtAt(j)

(* C3: on two arrays of the same shape compare_three_way returns the       *)
(* element result of the lowest flat index whose elements are not          *)
(* equivalent, and equivalent iff every position is equivalent.            *)
C3_ThreeWayFirstNonEquiv ==
  (Done("compare_three_way") /\ SameShapeArrays)
    => /\ \A k \in Idx : FirstNonEquiv(k) => res = CmpAt(k)
       /\ (res = "equivalent") = (\A k \in Idx : CmpAt(k) = "equivalent")

(* C3 witness: the first non-equivalent pair is unordered and a later      *)
(* pair is ordered                                                         *)
C3_Witness ==
  /\ Done("compare_three_way") /\ SameShapeArrays
  /\ res = "unordered"
  /\ \E k \in Idx : FirstNonEquiv(k) /\ k > 1
       /\ \E j \in Idx : j > k /\ CmpAt(j) = "less"

(* C4: the functors agree: equal_to is true exactly when compare_three_way *)
(* is equivalent, and less is true exactly when compare_three_way is less. *)
C4_FunctorsConsistent ==
  /\ (Done("equal_to") /\ SameShapeArrays)
       => (res = (compare_three_way(L, R, l, r) = "equivalent"))
  /\ (Done("less") /\ SameShapeArrays)
       => (res = (compare_three_way(L, R, l, r) = "less"))
  /\ (Done("compare_three_way") /\ SameShapeArrays)
       => /\ (res = "equivalent") = equal_to(L, R, l, r)
          /\ (res = "less") = less(L, R, l, r)

(* C4 witness: a partial order: the first difference is an unordered pair  *)
(* and a later pair is ordered                                             *)
C4_Witness ==
  /\ Done("less") /\ SameShapeArrays
  /\ res = FALSE
  /\ compare_three_way(L, R, l, r) = "unordered"
  /\ \E j \in Idx : LtAt(j)

----------------------------------------------------------------------------
(* C5 (as claimed): a comparison functor called with at least one array    *)
(* operand and operands of different shape is rejected at compile time,    *)
(* whatever the element type.  equal_to, not_equal_to and less accept      *)
(* arrays of raw pointers of different shape.                              *)
CompareFunctors == {"compare_three_way", "equal_to", "not_equal_to", "less"}

C5_ShapeMismatchRejected ==
  (op \in CompareFunctors /\ (c_array(L) \/ c_array(R)) /\ L.ext # R.ext)
    => pc = "ill_formed"

----------------------------------------------------------------------------
(* C6 (as claimed): after assign(l) = r on arrays of the same shape,       *)
(* equal_to(l, r) is true and the expression refers to l, for an lvalue,   *)
(* an rvalue or a braced literal r.                                        *)
AsLvalue(T) == [T EXCEPT !.cat = "lv"]

C6_RoundTripAnySource ==
  (Done("assign") /\ SameShapeArrays)
    => /\ equal_to(AsLvalue(L), AsLvalue(R), l, r)
       /\ res = "l"

(* every element of r compares equal to itself *)
SelfEqual == \A k \in 1..Len(FlatR) : elem_eq(R.elem, FlatR[k], R.elem, FlatR[k])

(* the assignment leaves r as it was: r is copied from, or moving an       *)
(* element leaves its source unchanged                                     *)
SourceKept == ~assign_moves(L, R) \/ ~ClassKind(R.elem)

(* C6 (amended): after assign(l) = r on arrays of the same shape and       *)
(* element type, where every element of r equals itself and r is copied    *)
(* from or is left unchanged by the move, equal_to(l, r) is true, that is  *)
(* the flat elements of l equal those of r, and the expression refers to l *)
C6_RoundTripKeptSource ==
  (Done("assign") /\ SameShapeArrays /\ L.elem = R.elem
     /\ SelfEqual /\ SourceKept)
    => /\ equal_to(AsLvalue(L), AsLvalue(R), l, r)
       /\ \A k \in Idx : EqAt(k)
       /\ res = "l"

(* C6 witness: a 2x2 array of class elements assigned from a braced        *)
(* literal whose elements differ                                           *)
C6_Witness ==
  /\ Done("assign") /\ SameShapeArrays
  /\ L.ext = <<2, 2>> /\ L.elem = "str" /\ R.cat = "braced"
  /\ FlatL = <<0, 1, 1, 0>>
  /\ FlatR = FlatL

----------------------------------------------------------------------------
(* C7: for arrays L and R of different shape assignable_from<L, R> is      *)
(* false and assign(l) = r is rejected at compile time; an accepted        *)
(* assignment to an array writes exactly the elements of l, which are as   *)
(* many as those of r.                                                     *)
C7_ShapeMismatchNotAssignable ==
  /\ (c_array(L) /\ c_array(R) /\ L.ext # R.ext)
       => /\ ~assignable_from(L, R)
          /\ op = "assign" => pc = "ill_formed"
  /\ (Done("assign") /\ c_array(L))
       => /\ L.ext = R.ext
          /\ Len(log) = flat_size(L)
          /\ Len(log) = flat_size(R)

(* C7 witness: int[3] = int[2] is rejected although int is assignable     *)
(* from int                                                                *)
C7_Witness ==
  /\ op = "assign" /\ pc = "ill_formed"
  /\ L = Ty("int", <<3>>, "lv") /\ R = Ty("int", <<2>>, "lv")
  /\ std_assignable_from(all_extents_removed_t(L), all_extents_removed_t(R))
  /\ ~assignable_from(L, R)

----------------------------------------------------------------------------
BinaryTraits == {"assignable_from", "is_assignable_v",
                 "is_trivially_assignable_v", "is_nothrow_assignable_v"}

(* the std trait of the pair of innermost element types *)
ElementTrait(t) ==
  LET A == all_extents_removed_t(L)
      B == all_extents_removed_t(R)
  IN  CASE t = "assignable_from" -> std_assignable_from(A, B)
        [] t = "is_assignable_v" -> std_is_assignable_v(A, B)
        [] t = "is_trivially_assignable_v" -> std_is_trivially_assignable_v(A, B)
        [] t = "is_nothrow_assignable_v" -> std_is_nothrow_assignable_v(A, B)

(* C8 (as claimed): for an array left type each of the four binary traits  *)
(* is true only if the element-pair trait holds and the shapes are equal.  *)
C8_AllTraitsRequireSameShape ==
  (Done("traits") /\ c_array(L))
    => \A t \in BinaryTraits :
         res[t] => (ElementTrait(t) /\ same_extents(L, R))

(* C8 (amended): for an array left type assignable_from is true exactly    *)
(* when the element-pair concept holds and the shapes are equal; each of   *)
(* is_assignable_v, is_trivially_assignable_v and is_nothrow_assignable_v  *)
(* equals the element-pair trait, whatever the shape of the right type.    *)
C8_OnlyAssignableFromRequiresSameShape ==
  (Done("traits") /\ c_array(L))
    => /\ res["assignable_from"]
            = (ElementTrait("assignable_from") /\ same_extents(L, R))
       /\ \A t \in BinaryTraits \ {"assignable_from"} :
            res[t] = ElementTrait(t)

(* C8 witness: is_assignable_v<int(&)[3], int(&)[2]> is true and           *)
(* assignable_from<int(&)[3], int(&)[2]> is false                          *)
C8_Witness ==
  /\ Done("traits")
  /\ L = Ty("int", <<3>>, "lv") /\ R = Ty("int", <<2>>, "lv")
  /\ res["is_assignable_v"]
  /\ ~res["assignable_from"]

----------------------------------------------------------------------------
(* C9 (as claimed): assign_elements is accepted only with as many values   *)
(* as the total extent of the array, and stores value k in the flat        *)
(* element k.                                                              *)
C9_CountIsTotalExtent ==
  Done("assign_elements")
    => /\ Len(args) = flat_size(L)
       /\ \A k \in 1..Len(args) :
            <<FlatL[k]>> = Flatten(args[k], ArgType(R).ext)

(* C9 (amended): assign_elements is accepted only with as many values as   *)
(* the outermost extent of the array, and assigns value k to element k of  *)
(* the array (a sub-array of a nested array); any other count is rejected  *)
(* at compile time.  For a one-dimensional array the count is the total    *)
(* extent and value k is stored in the flat element k.                     *)
C9_CountIsOutermostExtent ==
  /\ Done("assign_elements")
       => /\ Len(args) = Head(L.ext)
          /\ \A k \in 1..Len(args) : l[k] = args[k]
          /\ Len(L.ext) = 1
               => /\ Len(args) = flat_size(L)
                  /\ \A k \in 1..Len(args) : FlatL[k] = args[k]
  /\ (op = "assign_elements" /\ c_array(L) /\ Len(args) # Head(L.ext))
       => pc = "ill_formed"

(* C9 witness: two values assigned to a 2-element array *)
C9_Witness ==
  /\ Done("assign_elements")
  /\ L.ext = <<2>>
  /\ args = <<0, 1>>
  /\ l = <<0, 1>>

----------------------------------------------------------------------------
(* C10: at run time less on two raw pointers compares their addresses as   *)
(* unsigned integers: of two distinct pointers exactly one is less than    *)
(* the other, no pointer is less than itself, and the relation is          *)
(* transitive, for pointers into the same object or not.                   *)
C10_PointerLessStrictTotalOrder ==
  (Done("less") /\ ~ce /\ L.elem = "ptr" /\ ~c_array(L) /\ ~c_array(R))
    => /\ l # r => (res = ~less(R, L, r, l))
       /\ l = r => ~res
       /\ \A t \in Addresses : (res /\ less(R, R, r, t)) => less(L, R, l, t)

(* C10 witness: a pointer is less than a pointer into another object *)
C10_Witness ==
  /\ Done("less") /\ ~ce /\ L.elem = "ptr" /\ ~c_array(L) /\ ~c_array(R)
  /\ ~Related(l, r)
  /\ res = TRUE

----------------------------------------------------------------------------
(* The value with every class element replaced by its moved-from state *)
RECURSIVE MovedFromAll(_, _, _)
MovedFromAll(k, x, a) ==
  IF x = <<>> THEN moved_from(k, a)
  ELSE [j \in 1..Head(x) |-> MovedFromAll(k, Tail(x), a[j])]

(* the element type of A has a copy assignment *)
CopyAssignableElement(A) == A.elem # "mov"

(* C11 (as claimed): assign(l) = r on a non-const array l and an array r   *)
(* of the same type moves every element of an rvalue r (a moved-from       *)
(* variable or a brace-enclosed temporary) and is accepted whenever the    *)
(* element type is move-assignable; it copies every element of an lvalue   *)
(* r.  A brace-enclosed temporary binds to operator=(value_type const&),   *)
(* whose loop copies, and is rejected for a move-only element type.        *)
C11_ValueCategoryPreserved ==
  [][(pc = "ready" /\ op' = "assign" /\ SameShapeArrays
        /\ L.elem = R.elem /\ L.cat = "lv")
     => /\ R.cat \in {"rv", "braced"}
             => /\ pc' = "done"
                /\ l' = r
                /\ r' = MovedFromAll(R.elem, R.ext, r)
        /\ (R.cat \in {"lv", "clv"} /\ CopyAssignableElement(L))
             => /\ pc' = "done"
                /\ l' = r
                /\ r' = r]_vars

----------------------------------------------------------------------------
(* the std trait of the pair of types L, R themselves *)
StdTrait(t) ==
  CASE t = "assignable_from" -> std_assignable_from(L, R)
    [] t = "is_assignable_v" -> std_is_assignable_v(L, R)
    [] t = "is_trivially_assignable_v" -> std_is_trivially_assignable_v(L, R)
    [] t = "is_nothrow_assignable_v" -> std_is_nothrow_assignable_v(L, R)

(* what the elementwise path accepts: assignable elements, equal shapes *)
ElementwiseAssignable ==
  /\ std_assignable_from(all_extents_removed_t(L), all_extents_removed_t(R))
  /\ same_extents(L, R)

(* C12 (as claimed): in a build where is_copyable_array is true, assign(l)  *)
(* of an array uses no assign_to proxy, every binary trait equals the std  *)
(* trait on the same types, and assign(l) = r on arrays of the same shape  *)
(* is accepted exactly when the elementwise path accepts it and leaves in  *)
(* l the contents of r.  assign tests assign_toable<L&&> on a reference    *)
(* type, which is never std::copyable, so the proxy stays in use.          *)
C12_FlagCollapsesToNative ==
  is_copyable_array =>
    /\ (op = "assign" /\ c_array(L)) => ~assign_toable(L)
    /\ Done("traits") => \A t \in BinaryTraits : res[t] = StdTrait(t)
    /\ (op = "assign" /\ SameShapeArrays /\ L.cat = "lv" /\ R.cat # "braced")
         => /\ (pc = "done") = ElementwiseAssignable
            /\ pc = "done" => l = Fill(L.ext, MaxVal)

----------------------------------------------------------------------------
UnaryTraits == {"is_copy_assignable_v", "is_move_assignable_v",
                "is_trivially_copy_assignable_v",
                "is_trivially_move_assignable_v",
                "is_nothrow_copy_assignable_v",
                "is_nothrow_move_assignable_v"}

(* the std unary trait t of the type T *)
StdUnaryTrait(t, T) ==
  CASE t = "is_copy_assignable_v" -> std_is_copy_assignable_v(T)
    [] t = "is_move_assignable_v" -> std_is_move_assignable_v(T)
    [] t = "is_trivially_copy_assignable_v" ->
         std_is_trivially_copy_assignable_v(T)
    [] t = "is_trivially_move_assignable_v" ->
         std_is_trivially_move_assignable_v(T)
    [] t = "is_nothrow_copy_assignable_v" -> std_is_nothrow_copy_assignable_v(T)
    [] t = "is_nothrow_move_assignable_v" -> std_is_nothrow_move_assignable_v(T)

(* C13: for an array type each unary assignability trait equals the std    *)
(* trait of the innermost element type, and for a non-array type the std   *)
(* trait of the type itself, with or without array copy semantics.         *)
C13_UnaryTraitsOfElement ==
  Done("unary_traits")
    => \A t \in UnaryTraits :
         res[t] = StdUnaryTrait(t, IF c_array(L) THEN all_extents_removed_t(L)
                                   ELSE L)

(* C13 witness: a two-dimensional array of move-only elements is move      *)
(* assignable and not copy assignable although no array is assignable      *)
C13_Witness ==
  /\ Done("unary_traits")
  /\ ~array_copy_semantics
  /\ L = Ty("mov", <<2, 3>>, "rv")
  /\ ~StdUnaryTrait("is_move_assignable_v", L)
  /\ res["is_move_assignable_v"]
  /\ ~res["is_copy_assignable_v"]
  /\ res["is_nothrow_move_assignable_v"]
  /\ ~res["is_trivially_move_assignable_v"]

----------------------------------------------------------------------------
Loops == CompareFunctors \cup {"assign"}

(* C14 (as claimed): on every accepted call of a comparison functor or of  *)
(* assign on arrays, every index passed to flat_index is below the total   *)
(* extent of the left operand and below that of the right operand.         *)
(* equal_to, not_equal_to and less accept arrays of raw pointers of        *)
(* different shape and index the right operand up to flat_size<L>.         *)
C14_IndexInRange ==
  (pc = "done" /\ op \in Loops /\ c_array(L) /\ c_array(R))
    => \A k \in 1..Len(log) :
         /\ 0 <= log[k]
         /\ log[k] < flat_size(L)
         /\ log[k] < flat_size(R)

----------------------------------------------------------------------------
(* the flat indices 0 .. n-1 in increasing order *)
Ascending(n) == [k \in 1..n |-> k - 1]

(* C15: assign(l) = r on an array l with an lvalue or const array r writes *)
(* the flat elements of l, each once and in increasing index order, leaves *)
(* r as it was, leaves in l the contents r had at the call, and changes    *)
(* nothing else.                                                           *)
C15_AssignFrame ==
  [][(pc = "ready" /\ op' = "assign" /\ pc' = "done"
        /\ c_array(L) /\ R.cat \in {"lv", "clv"})
     => /\ log' = Ascending(flat_size(L))
        /\ r' = r
        /\ l' = r
        /\ UNCHANGED <<L, R, past, ce, args, array_copy_semantics>>]_vars

(* C15 witness: a 2x2 array of class elements copied from an lvalue array  *)
(* whose elements differ from those of l                                   *)
C15_Witness ==
  /\ Done("assign")
  /\ L = Ty("str", <<2, 2>>, "lv") /\ R = Ty("str", <<2, 2>>, "lv")
  /\ log = <<0, 1, 2, 3>>
  /\ FlatR = <<1, 0, 0, 1>>
  /\ l = r

----------------------------------------------------------------------------
(* the element type of both operands is totally ordered with consistent    *)
(* == and < (int; double has NaN)                                          *)
TotallyOrderedElements == L.elem = "int" /\ R.elem = "int"

(* number of the given facts that hold *)
CountTrue(fs) == Cardinality({k \in 1..Len(fs) : fs[k]})

(* C16: over arrays of one shape with totally ordered elements less is a   *)
(* strict total order: irreflexive, asymmetric, transitive, and exactly    *)
(* one of less(A,B), less(B,A), equal_to(A,B) holds.                       *)
C16_LessStrictTotalOrder ==
  (Done("less") /\ SameShapeArrays /\ TotallyOrderedElements)
    => /\ ~less(L, L, l, l)
       /\ res => ~less(R, L, r, l)
       /\ \A c \in ArraysOf(R.ext, ElemVals(R.elem)) :
            (res /\ less(R, R, r, c)) => less(L, R, l, c)
       /\ CountTrue(<<res, less(R, L, r, l), equal_to(L, R, l, r)>>) = 1

(* C16 witness: A < B decided after the first position, and B < C for a    *)
(* third array C                                                           *)
C16_Witness ==
  /\ Done("less") /\ SameShapeArrays /\ TotallyOrderedElements
  /\ L.ext = <<2, 2>>
  /\ res = TRUE
  /\ EqAt(1)
  /\ \E c \in ArraysOf(R.ext, ElemVals(R.elem)) : less(R, R, r, c)

=============================================================================
